---- MODULE Spec2Model ----
(***************************************************************************)
(* Model of main.py: the POST /api/generate-name endpoint of the Yubaba    *)
(* name service (FastAPI handler create_new_name and the helper            *)
(* generate_yubaba_name_gemini that calls the Gemini backend).             *)
(*                                                                         *)
(* Text is modelled as a sequence of characters.  The module is ASCII, so  *)
(* the full-width parentheses U+FF08 / U+FF09 are the tokens "FW(" and     *)
(* "FW)", and every other printable character is the token "k".            *)
(***************************************************************************)
EXTENDS Naturals, Sequences, FiniteSets

VARIABLES pc, body, calls, reply, new_name, exc, response, log, model

vars == <<pc, body, calls, reply, new_name, exc, response, log, model>>

(* ------------------------------ bounds --------------------------------- *)

\* longest backend text drawn in the single-request specification
MaxLen == 4

\* number of concurrently handled requests in the concurrent specification
NumRequests == 2

(* ------------------------------ characters ----------------------------- *)

LParen == "("
RParen == ")"
FwLParen == "FW("
FwRParen == "FW)"
Space == " "
Kanji == "k"

Alphabet == {LParen, RParen, FwLParen, FwRParen, Space, Kanji}

\* str.isspace(): the characters str.strip() removes
IsSpace(c) == c = Space

Texts(n) == UNION {[1..k -> Alphabet] : k \in 0..n}

(* ------------------------------ str.strip ------------------------------ *)

RECURSIVE LStrip(_)
LStrip(s) == IF s # <<>> /\ IsSpace(Head(s)) THEN LStrip(Tail(s)) ELSE s

RECURSIVE RStrip(_)
RStrip(s) ==
  IF s # <<>> /\ IsSpace(s[Len(s)]) THEN RStrip(SubSeq(s, 1, Len(s) - 1)) ELSE s

StripNoOp(s) == s

Strip(s) == RStrip(LStrip(s))

\* the Python operator "c in s" for a one-character c
In(c, s) == \E i \in 1..Len(s) : s[i] = c

HasAnyOpenAndClose(t) ==
  (In(LParen, t) \/ In(FwLParen, t)) /\ (In(RParen, t) \/ In(FwRParen, t))

\* lines 94-95: the format check on the stripped text
HasParenPair(t) ==
  (In(LParen, t) /\ In(RParen, t)) \/ (In(FwLParen, t) /\ In(FwRParen, t))

(* ------------------------------ HTTP errors ---------------------------- *)

\* the detail strings of the HTTP errors (Japanese literals in the source,
\* rendered here in ASCII)
DetailNoName == "name is not entered"                   \* line 123
DetailBadFormat == "generated name has unexpected format"  \* line 100
DetailNoResponse == "name generation failed (no response)" \* line 104
DetailServerError == "server error during name generation" \* line 110
DetailInternal == "internal server error"               \* line 134
DetailValidation == "field required: body.name"         \* FastAPI validation

HTTPException(status, detail) ==
  [cls |-> "HTTPException", status |-> status, detail |-> detail]

PyException(msg) == [cls |-> "Exception", msg |-> msg]

NoExc == [cls |-> "none"]

(* ------------------------------ request bodies ------------------------- *)

\* a JSON body that carries a "name" field
BodyWithName(n) == [fields |-> {"name"}, name |-> n]

\* a JSON body without a "name" field
BodyNoName == [fields |-> {}, name |-> <<>>]

Names == {<<>>, <<Kanji>>, <<Kanji, Kanji>>}

Bodies == {BodyNoName} \cup {BodyWithName(n) : n \in Names}

\* NameInput (name: str, a required field): the body validates iff it has it
NameInputValid(b) == "name" \in b.fields

\* Python truthiness of a str: "not original_name"
FalsyNone(s) == FALSE

Falsy(s) == s = <<>>

\* lines 67-83: the f-string prompt, the name embedded twice
Prompt(name) == <<"instruction">> \o name \o <<"examples", "input:">> \o name \o <<"output:">>

(* ------------------------------ backend replies ------------------------ *)

Messages == {"timeout", "quota"}
Ratings == {"harassment:high", "dangerous:high"}

TextPart(t) == [kind |-> "text", text |-> t]
NonTextPart == [kind |-> "function_call", text |-> <<>>]

\* generate_content raised an exception with this message
Raised(msg) == [kind |-> "raise", msg |-> msg, parts |-> <<>>, feedback |-> "None"]

\* generate_content returned a response: its parts and its prompt_feedback
Returned(parts, feedback) ==
  [kind |-> "response", msg |-> "", parts |-> parts, feedback |-> feedback]

NoReply == [kind |-> "none", msg |-> "", parts |-> <<>>, feedback |-> "None"]

RepliesOver(texts) ==
  {Raised(m) : m \in Messages}
    \cup {Returned(<<>>, f) : f \in Ratings \cup {"None"}}
    \cup {Returned(<<NonTextPart>>, "None")}
    \cup {Returned(<<TextPart(t)>>, "None") : t \in texts}

\* response.text raises ValueError when the part carries no text
TextRaises(rep) == rep.parts[1].kind # "text"

ResponseText(rep) == rep.parts[1].text

\* line 102: the safety ratings logged for a response without parts
SafetyRatings(rep) == IF rep.feedback # "None" THEN rep.feedback ELSE "N/A"

(* ------------------------------ exception handlers --------------------- *)

ReraiseWrapAll(e) == HTTPException(500, DetailServerError)

ReraiseAsIs(e) == e

ReraiseWithMessage(e) ==
  IF e.cls # "HTTPException" THEN HTTPException(500, e.msg) ELSE e

\* lines 109-113: what the except clause of generate_yubaba_name_gemini raises
Reraise(e) ==
  IF e.cls # "HTTPException" THEN HTTPException(500, DetailServerError) ELSE e

\* lines 129-134: the response create_new_name's except clauses produce
HandlerError(e) ==
  IF e.cls = "HTTPException"
    THEN [status |-> e.status, detail |-> e.detail, new_name |-> <<>>]
    ELSE [status |-> 500, detail |-> DetailInternal, new_name |-> <<>>]

ErrorResponse(status, detail) ==
  [status |-> status, detail |-> detail, new_name |-> <<>>]

\* line 128: NameOutput(new_name=new_name), sent with status 200
NameOutput(n) == [status |-> 200, detail |-> "", new_name |-> n]

NoResponse == [status |-> 0, detail |-> "", new_name |-> <<>>]

\* what the exception prints as in a log line
ExcText(e) == IF e.cls = "HTTPException" THEN e.detail ELSE e.msg

\* line 57: the module-level model handle
GenerativeModel == [model_name |-> "gemini-1.5-flash"]

(* ------------------------------ logging -------------------------------- *)

\* one logger call: its level, the source line of the call and its argument
LogLine(level, line, arg) == [level |-> level, line |-> line, arg |-> arg]

Logged(r, lines) == [log EXCEPT ![r] = @ \o lines]

(* ------------------------------ state ---------------------------------- *)

Requests == DOMAIN pc

InitOver(rs) ==
  /\ pc = [r \in rs |-> "idle"]
  /\ body = [r \in rs |-> BodyNoName]
  /\ calls = [r \in rs |-> <<>>]
  /\ reply = [r \in rs |-> NoReply]
  /\ new_name = [r \in rs |-> <<>>]
  /\ exc = [r \in rs |-> NoExc]
  /\ response = [r \in rs |-> NoResponse]
  /\ log = [r \in rs |-> <<>>]
  /\ model = GenerativeModel

(* ------------------------------ actions -------------------------------- *)

\* a POST /api/generate-name request arrives with some JSON body
Receive(r, bodies) ==
  /\ pc[r] = "idle"
  /\ \E b \in bodies : body' = [body EXCEPT ![r] = b]
  /\ pc' = [pc EXCEPT ![r] = "validate"]
  /\ UNCHANGED <<calls, reply, new_name, exc, response, log, model>>

\* lines 32-33, 117-118: the body is parsed into NameInput before the handler
\* runs; a body that does not validate is answered 422 by the framework
ValidateBody(r) ==
  /\ pc[r] = "validate"
  /\ IF NameInputValid(body[r])
       THEN /\ pc' = [pc EXCEPT ![r] = "handler"]
            /\ UNCHANGED response
       ELSE /\ pc' = [pc EXCEPT ![r] = "done"]
            /\ response' = [response EXCEPT ![r] = ErrorResponse(422, DetailValidation)]
  /\ UNCHANGED <<body, calls, reply, new_name, exc, log, model>>

\* lines 119-123: the empty-name check, outside the try block
CheckName(r) ==
  /\ pc[r] = "handler"
  /\ LET original_name == body[r].name IN
       IF Falsy(original_name)
         THEN /\ pc' = [pc EXCEPT ![r] = "done"]
              /\ response' = [response EXCEPT ![r] = ErrorResponse(400, DetailNoName)]
              /\ log' = Logged(r, <<LogLine("info", 119, <<>>),
                                    LogLine("warning", 122, <<>>)>>)
         ELSE /\ pc' = [pc EXCEPT ![r] = "call"]
              /\ UNCHANGED response
              /\ log' = Logged(r, <<LogLine("info", 119, <<>>),
                                    LogLine("info", 66, original_name)>>)
  /\ UNCHANGED <<body, calls, reply, new_name, exc, model>>

CallBackendRetry(r, replies) ==
  /\ pc[r] = "call"
  /\ calls' = [calls EXCEPT ![r] = Append(@, Prompt(body[r].name))]
  /\ \E rep \in replies :
       /\ reply' = [reply EXCEPT ![r] = rep]
       /\ IF rep.kind = "raise"
            THEN /\ pc' = [pc EXCEPT ![r] = IF calls[r] = <<>> THEN "call" ELSE "except_inner"]
                 /\ exc' = [exc EXCEPT ![r] = PyException(rep.msg)]
                 /\ log' = Logged(r, <<LogLine("info", 86, <<>>)>>)
            ELSE /\ pc' = [pc EXCEPT ![r] = "process"]
                 /\ UNCHANGED exc
                 /\ log' = Logged(r, <<LogLine("info", 86, <<>>),
                                       LogLine("info", 88, <<>>)>>)
  /\ UNCHANGED <<body, new_name, response, model>>

\* lines 85-88: model.generate_content(prompt), which returns or raises
CallBackend(r, replies) ==
  /\ pc[r] = "call"
  /\ calls' = [calls EXCEPT ![r] = Append(@, Prompt(body[r].name))]
  /\ \E rep \in replies :
       /\ reply' = [reply EXCEPT ![r] = rep]
       /\ IF rep.kind = "raise"
            THEN /\ pc' = [pc EXCEPT ![r] = "except_inner"]
                 /\ exc' = [exc EXCEPT ![r] = PyException(rep.msg)]
                 /\ log' = Logged(r, <<LogLine("info", 86, <<>>)>>)
            ELSE /\ pc' = [pc EXCEPT ![r] = "process"]
                 /\ UNCHANGED exc
                 /\ log' = Logged(r, <<LogLine("info", 86, <<>>),
                                       LogLine("info", 88, <<>>)>>)
  /\ UNCHANGED <<body, new_name, response, model>>

ReplySharedSlot(r) == IF reply[1].kind = "response" THEN reply[1] ELSE reply[r]

\* line 87: the local variable "response" of this call
ReplyOf(r) == reply[r]

\* lines 90-104: the checks on the backend's response
ProcessReply(r) ==
  /\ pc[r] = "process"
  /\ LET rep == ReplyOf(r) IN
       IF rep.parts # <<>>
         THEN IF TextRaises(rep)
                THEN /\ exc' = [exc EXCEPT ![r] = PyException("ValueError")]
                     /\ pc' = [pc EXCEPT ![r] = "except_inner"]
                     /\ UNCHANGED <<new_name, log>>
                ELSE LET stripped == Strip(ResponseText(rep)) IN
                       /\ new_name' = [new_name EXCEPT ![r] = stripped]
                       /\ IF HasParenPair(stripped)
                            THEN /\ pc' = [pc EXCEPT ![r] = "return"]
                                 /\ UNCHANGED exc
                                 /\ log' = Logged(r, <<LogLine("info", 92, stripped),
                                                       LogLine("info", 96, <<>>)>>)
                            ELSE /\ pc' = [pc EXCEPT ![r] = "except_inner"]
                                 /\ exc' = [exc EXCEPT ![r] =
                                              HTTPException(500, DetailBadFormat)]
                                 /\ log' = Logged(r, <<LogLine("info", 92, stripped),
                                                       LogLine("warning", 99, stripped)>>)
         ELSE /\ pc' = [pc EXCEPT ![r] = "except_inner"]
              /\ exc' = [exc EXCEPT ![r] = HTTPException(500, DetailNoResponse)]
              /\ log' = Logged(r, <<LogLine("warning", 103, <<SafetyRatings(rep)>>)>>)
              /\ UNCHANGED new_name
  /\ UNCHANGED <<body, calls, reply, response, model>>

\* lines 106-113: "except Exception as e" of generate_yubaba_name_gemini
InnerExcept(r) ==
  /\ pc[r] = "except_inner"
  /\ log' = Logged(r, <<LogLine("error", 107, <<ExcText(exc[r])>>)>>)
  /\ exc' = [exc EXCEPT ![r] = Reraise(exc[r])]
  /\ pc' = [pc EXCEPT ![r] = "except_outer"]
  /\ UNCHANGED <<body, calls, reply, new_name, response, model>>

\* lines 126-128: the helper returned, the handler answers 200
ReturnName(r) ==
  /\ pc[r] = "return"
  /\ response' = [response EXCEPT ![r] = NameOutput(new_name[r])]
  /\ log' = Logged(r, <<LogLine("info", 127, <<>>)>>)
  /\ pc' = [pc EXCEPT ![r] = "done"]
  /\ UNCHANGED <<body, calls, reply, new_name, exc, model>>

\* lines 129-134: the except clauses of create_new_name
OuterExcept(r) ==
  /\ pc[r] = "except_outer"
  /\ response' = [response EXCEPT ![r] = HandlerError(exc[r])]
  /\ log' = Logged(r, <<LogLine("error",
                                IF exc[r].cls = "HTTPException" THEN 130 ELSE 133,
                                <<ExcText(exc[r])>>)>>)
  /\ pc' = [pc EXCEPT ![r] = "done"]
  /\ UNCHANGED <<body, calls, reply, new_name, exc, model>>

(* ------------------------------ specifications ------------------------- *)

\* one request, every backend text of up to MaxLen characters
Replies == RepliesOver(Texts(MaxLen))

Init == InitOver({1})

Next ==
  \/ \E r \in Requests : Receive(r, Bodies)
  \/ \E r \in Requests : ValidateBody(r)
  \/ \E r \in Requests : CheckName(r)
  \/ \E r \in Requests : CallBackend(r, Replies)
  \/ \E r \in Requests : ProcessReply(r)
  \/ \E r \in Requests : InnerExcept(r)
  \/ \E r \in Requests : ReturnName(r)
  \/ \E r \in Requests : OuterExcept(r)

Spec == Init /\ [][Next]_vars

\* NumRequests requests handled concurrently, the steps of their handlers
\* interleaved in any order, the backend's texts drawn from ConcTexts
ConcTexts ==
  {<<>>, <<Kanji>>, <<LParen, RParen>>, <<RParen, LParen>>,
   <<Space, FwLParen, FwRParen>>, <<LParen, FwRParen>>}

ConcReplies == RepliesOver(ConcTexts)

InitConc == InitOver(1..NumRequests)

NextConc ==
  \/ \E r \in Requests : Receive(r, Bodies)
  \/ \E r \in Requests : ValidateBody(r)
  \/ \E r \in Requests : CheckName(r)
  \/ \E r \in Requests : CallBackend(r, ConcReplies)
  \/ \E r \in Requests : ProcessReply(r)
  \/ \E r \in Requests : InnerExcept(r)
  \/ \E r \in Requests : ReturnName(r)
  \/ \E r \in Requests : OuterExcept(r)

SpecConc == InitConc /\ [][NextConc]_vars

(* ------------------------------ vocabulary of the properties ----------- *)

Done(r) == pc[r] = "done"

\* the request carries a non-empty name
NonEmptyName(r) == pc[r] # "idle" /\ "name" \in body[r].fields /\ body[r].name # <<>>

\* the backend returned a response whose text can be read
GaveText(r) ==
  /\ reply[r].kind = "response"
  /\ reply[r].parts # <<>>
  /\ reply[r].parts[1].kind = "text"

TextOf(r) == reply[r].parts[1].text

\* both characters occur in t, in either order
ContainsBoth(t, a, b) == \E i, j \in 1..Len(t) : t[i] = a /\ t[j] = b

\* a occurs in t and b occurs later
OpensThenCloses(t, a, b) == \E i, j \in 1..Len(t) : i < j /\ t[i] = a /\ t[j] = b

BothOfAKind(t) ==
  ContainsBoth(t, LParen, RParen) \/ ContainsBoth(t, FwLParen, FwRParen)

MatchingPair(t) ==
  OpensThenCloses(t, LParen, RParen) \/ OpensThenCloses(t, FwLParen, FwRParen)

\* n is t with its leading and trailing whitespace removed and nothing else
TrimOf(n, t) ==
  \E i \in 1..(Len(t) + 1), j \in 0..Len(t) :
    /\ n = SubSeq(t, i, j)
    /\ \A k \in 1..Len(t) : (k < i \/ k > j) => IsSpace(t[k])
    /\ n # <<>> => (~IsSpace(n[1]) /\ ~IsSpace(n[Len(n)]))

LoggedAt(r, line) == \E i \in 1..Len(log[r]) : log[r][i].line = line

LoggedArg(r, line, arg) ==
  \E i \in 1..Len(log[r]) : log[r][i].line = line /\ log[r][i].arg = arg

\* the error kind a finished request failed with, by the raise that fired
FailedWith(r) ==
  IF ~Done(r) \/ response[r].status # 500 THEN "none"
  ELSE IF LoggedAt(r, 99) THEN "unexpected-format"
  ELSE IF LoggedAt(r, 103) THEN "empty-response"
  ELSE "upstream-failure"

(* ------------------------------ C1 ------------------------------------- *)

\* C1: a request whose name is the empty string is answered with the
\* invalid-input error (400) and the backend is never called for it.
C1_EmptyNameRejected ==
  \A r \in Requests :
    (pc[r] # "idle" /\ "name" \in body[r].fields /\ body[r].name = <<>>) =>
      /\ calls[r] = <<>>
      /\ reply[r] = NoReply
      /\ pc[r] \in {"validate", "handler", "done"}
      /\ Done(r) => response[r] = ErrorResponse(400, DetailNoName)

C1_Witness ==
  \E r \in Requests :
    /\ Done(r)
    /\ body[r] = BodyWithName(<<>>)
    /\ response[r].status = 400
    /\ calls[r] = <<>>

(* ------------------------------ C2 ------------------------------------- *)

C3_PassedThroughTrimmed ==
  \A r \in Requests :
    (Done(r) /\ NonEmptyName(r) /\ GaveText(r) /\ BothOfAKind(TextOf(r))) =>
      /\ response[r].status = 200
      /\ TrimOf(response[r].new_name, TextOf(r))

C3_Witness ==
  \E r \in Requests :
    /\ Done(r)
    /\ NonEmptyName(r)
    /\ GaveText(r)
    /\ TextOf(r) = <<FwLParen, FwRParen, Space>>
    /\ response[r] = NameOutput(<<FwLParen, FwRParen>>)

(* ------------------------------ C4 ------------------------------------- *)

\* C4: for a non-empty name and a backend text that has characters but
\* neither both ASCII nor both full-width parentheses, the answer is the
\* unexpected-format error (500), not the upstream-failure error.
C4_UnexpectedFormat ==
  \A r \in Requests :
    (Done(r) /\ NonEmptyName(r) /\ GaveText(r)
       /\ TextOf(r) # <<>> /\ ~BothOfAKind(TextOf(r))) =>
      response[r] = ErrorResponse(500, DetailBadFormat)

C4_Witness ==
  \E r \in Requests :
    /\ Done(r)
    /\ NonEmptyName(r)
    /\ GaveText(r)
    /\ TextOf(r) = <<LParen, Kanji, FwRParen>>
    /\ response[r] = ErrorResponse(500, DetailBadFormat)

(* ------------------------------ C5 ------------------------------------- *)

\* C5: for a non-empty name, a backend reply with no parts or with empty
\* text is answered with the empty-response error (500, "no response").
C5_EmptyReplyOriginal ==
  \A r \in Requests :
    (Done(r) /\ NonEmptyName(r) /\ reply[r].kind = "response"
       /\ (reply[r].parts = <<>> \/ (GaveText(r) /\ TextOf(r) = <<>>))) =>
      response[r] = ErrorResponse(500, DetailNoResponse)

(* ------------------------------ C6 ------------------------------------- *)

\* C6: for a non-empty name, an exception raised by the backend call or by
\* reading its response ends in the upstream-failure error (500); only HTTP
\* errors leave the helper and every finished request has an HTTP response.
C6_UpstreamFailure ==
  \A r \in Requests :
    /\ (Done(r) /\ NonEmptyName(r)
          /\ (reply[r].kind = "raise"
                \/ (reply[r].kind = "response" /\ reply[r].parts # <<>>
                      /\ ~GaveText(r)))) =>
         response[r] = ErrorResponse(500, DetailServerError)
    /\ pc[r] = "except_outer" => exc[r].cls = "HTTPException"
    /\ Done(r) => response[r].status \in {200, 400, 422, 500}
    /\ (Done(r) /\ response[r].status = 500) =>
         response[r].detail \in {DetailBadFormat, DetailNoResponse, DetailServerError}

C6_Witness ==
  \E r \in Requests :
    /\ Done(r)
    /\ NonEmptyName(r)
    /\ reply[r].kind = "raise"
    /\ response[r] = ErrorResponse(500, DetailServerError)

(* ------------------------------ C7 ------------------------------------- *)

\* C7: two requests that fail with the same error kind get the same status
\* and detail, whatever the backend's exception message, safety ratings or
\* rejected text; that detail is in the server-side log.
C7_GenericErrorBody ==
  /\ \A r1, r2 \in Requests :
       (FailedWith(r1) # "none" /\ FailedWith(r1) = FailedWith(r2)) =>
         response[r1] = response[r2]
  /\ \A r \in Requests :
       /\ (Done(r) /\ reply[r].kind = "raise") => LoggedArg(r, 107, <<reply[r].msg>>)
       /\ FailedWith(r) = "empty-response" =>
            LoggedArg(r, 103, <<SafetyRatings(reply[r])>>)
       /\ FailedWith(r) = "unexpected-format" => LoggedArg(r, 99, new_name[r])

C7_Witness ==
  \E r1, r2 \in Requests :
    /\ FailedWith(r1) = "upstream-failure"
    /\ FailedWith(r2) = "upstream-failure"
    /\ reply[r1].kind = "raise"
    /\ reply[r2].kind = "raise"
    /\ reply[r1].msg # reply[r2].msg
    /\ response[r1] = response[r2]

(* ------------------------------ C8 ------------------------------------- *)

\* C8: a request calls the backend at most once, exactly once when its name
\* is non-empty and never otherwise, with the prompt built from its own name.
C8_OneBackendCall ==
  \A r \in Requests :
    /\ Len(calls[r]) <= 1
    /\ (Done(r) /\ NonEmptyName(r)) => calls[r] = <<Prompt(body[r].name)>>
    /\ ~NonEmptyName(r) => calls[r] = <<>>

C8_Witness ==
  \E r1, r2 \in Requests :
    /\ r1 # r2
    /\ Done(r1)
    /\ Done(r2)
    /\ NonEmptyName(r1)
    /\ body[r1] = body[r2]
    /\ response[r1].status = 500
    /\ response[r2].status = 200
    /\ Len(calls[r1]) = 1
    /\ Len(calls[r2]) = 1

(* ------------------------------ C9 ------------------------------------- *)

\* C9: a request whose body has no name field is answered 400 with the
\* invalid-input error of an empty name and does not reach the backend.
C9_MissingNameOriginal ==
  \A r \in Requests :
    (Done(r) /\ "name" \notin body[r].fields) =>
      /\ response[r] = ErrorResponse(400, DetailNoName)
      /\ calls[r] = <<>>

(* ------------------------------ C10 ------------------------------------ *)

\* the answer a request's own body and its own backend reply determine
Determined(b, rep, resp) ==
  IF "name" \notin b.fields THEN resp.status = 422
  ELSE IF b.name = <<>> THEN resp.status = 400
  ELSE IF rep.kind = "raise" THEN resp = ErrorResponse(500, DetailServerError)
  ELSE IF rep.parts = <<>> THEN resp = ErrorResponse(500, DetailNoResponse)
  ELSE IF rep.parts[1].kind # "text" THEN resp = ErrorResponse(500, DetailServerError)
  ELSE IF BothOfAKind(rep.parts[1].text)
    THEN resp.status = 200 /\ TrimOf(resp.new_name, rep.parts[1].text)
  ELSE resp = ErrorResponse(500, DetailBadFormat)

\* C10: under every interleaving each finished request's response is the one
\* its own name and its own backend reply determine, and the shared model
\* handle keeps the value it got at startup.
C10_RequestsIndependent ==
  /\ model = GenerativeModel
  /\ \A r \in Requests : Done(r) => Determined(body[r], reply[r], response[r])

C10_Witness ==
  \E r1, r2 \in Requests :
    /\ Done(r1)
    /\ Done(r2)
    /\ NonEmptyName(r1)
    /\ NonEmptyName(r2)
    /\ response[r1].status = 200
    /\ response[r2].status = 500
    /\ reply[r2].kind = "response"
    /\ reply[r1] # reply[r2]

====
